---- MODULE Spec2Model ----
(***************************************************************************)
(* Model of consumer/consumer.go: the SQS consumer pool.                   *)
(*                                                                         *)
(* SQS.Start spawns config.Concurrency workers in an errgroup; each worker *)
(* runs SQS.handleMessages: cancellation checkpoint, long-poll receive,    *)
(* optional pre-dispatch delete (Immediate), handler per message, delete   *)
(* of the handler successes (OnSuccess).  deleteSqsMessages submits the    *)
(* messages in chunks of 10 produced by chunk.                             *)
(*                                                                         *)
(* The queue service is the environment: a message is visible, in flight   *)
(* (received, hidden until its visibility timeout) or deleted.             *)
(***************************************************************************)
EXTENDS Integers, Sequences, FiniteSets, TLC

\* ---------------------------------------------------------------- bounds
\* Largest config.Concurrency the pool specification starts with.
MaxConcurrency == 2
\* Number of messages in the queue of the pool specification.
NumMsgs == 1
\* Number of messages in the queue of the single-worker batch specification.
MaxBatch == 12
\* Longest input and largest chunk size of the chunk specification.
MaxLen == 5
MaxK == 4
\* Largest value given for an integer field of the configuration.
MaxField == 2

\* ------------------------------------------------------ program constants
\* chunk(msg, 10): max batch size for SQS is 10
DeleteBatchSize == 10

DeleteStrategyImmediate == "IMMEDIATE"
DeleteStrategyOnSuccess == "ON_SUCCESS"
\* A non-empty DeleteStrategy that is neither of the two (NewSQSConsumer
\* replaces only the empty string).
DeleteStrategyOther == "OTHER"

\* Defaults of the configuration (declared beside SQSConf).
DefaultConcurrency == 5
DefaultWaitTimeSeconds == 10
DefaultMaxNumberOfMessages == 10

\* Sentinel errors of NewSQSConsumer; NoError is Go's nil error.
NoError == "nil"
SentinelErrorConfigAws == "SentinelErrorConfigAws"
SentinelErrorConfigIsNil == "SentinelErrorConfigIsNil"
SentinelErrorQueueNotSet == "SentinelErrorQueueNotSet"

\* A nil *SQSConf, and the nil *SQS returned with an error.
NilConf == [nil |-> TRUE]

VARIABLES
    \* --- configuration (SQSConf after NewSQSConsumer)
    strategy,      \* config.DeleteStrategy
    concurrency,   \* config.Concurrency
    maxMessages,   \* config.MaxNumberOfMessages
    \* --- the queue service
    queue,         \* message id -> "visible" | "inflight" | "deleted"
    \* --- Start
    ctxDone,       \* the shared context is cancelled
    gErr,          \* errgroup's recorded error (set once)
    startPc,       \* "running" | "returned"
    startRet,      \* value returned by Start
    observer,      \* interrupt goroutine: "waiting" on its channel | "exited"
    \* --- handleMessages, one per worker
    pc,            \* "top" | "recv" | "sleep" | "predel" | "handle" | "postdel" |
                   \* "loop" (end of the loop body) | "done" (returned)
    batch,         \* result.Messages of the current poll cycle
    idx,           \* index of the next message handed to consumeFn
    toDelete,      \* toDelete slice
    pend,          \* chunks deleteSqsMessages still has to submit
    ret,           \* value returned by handleMessages
    \* --- observation of calls (history)
    failed,        \* per worker: a receive or delete-batch call of it returned an error
    firstErr,      \* the first non-nil error a worker returned, Nil before
    handed,        \* message id -> the handler has been invoked on it
    submitted,     \* per worker: entries of this cycle's delete-batch calls, concatenated
    oks,           \* per worker: handler results of this cycle (TRUE = nil)
    \* --- chunk as a pure function
    rows,          \* input sequence
    chunkSize,     \* input chunk size
    chunks,        \* result of chunk(rows, chunkSize)
    chunkPc,       \* "idle" before the call of chunk, "called" after it
    \* --- NewSQSConsumer as a pure function
    awsEnv,        \* AWS environment: "unset" | "invalid" | "ok"
    conf,          \* the *SQSConf argument as the caller filled it in, or NilConf
    newRet,        \* result of NewSQSConsumer: [config, err]
    newPc          \* "idle" before the call of NewSQSConsumer, "called" after it

cfgVars == <<strategy, concurrency, maxMessages>>
startVars == <<ctxDone, gErr, startPc, startRet, observer>>
workerVars == <<pc, batch, idx, toDelete, pend, ret>>
histVars == <<failed, firstErr, handed, submitted, oks>>
chunkVars == <<rows, chunkSize, chunks, chunkPc>>
confVars == <<awsEnv, conf, newRet, newPc>>
vars == <<cfgVars, queue, startVars, workerVars, histVars, chunkVars, confVars>>

Workers == 1..concurrency
Msgs == DOMAIN queue

\* ----------------------------------------------------------------- errors
Nil == [call |-> "none", cause |-> "none", w |-> 0]
\* The error returned to worker w by call "recv" (ReceiveMessage) or "delete"
\* (DeleteMessageBatch); cause "transport": the queue service failed;
\* cause "ctx": the call was given a cancelled context and returned its error.
Err(call, cause, w) == [call |-> call, cause |-> cause, w |-> w]

\* ------------------------------------------------------------------ chunk
RECURSIVE chunkLoop(_, _, _)
\* for len(rows) >= chunkSize { chunk, rows = rows[:chunkSize], rows[chunkSize:]; append }
chunkLoop(rs, k, acc) ==
    IF Len(rs) >= k
    THEN chunkLoop(SubSeq(rs, k + 1, Len(rs)), k, Append(acc, SubSeq(rs, 1, k)))
    ELSE [rows |-> rs, chunks |-> acc]

\* Mutant: the remainder shorter than chunkSize is dropped.
chunkDropRemainder(rs, k) == chunkLoop(rs, k, <<>>).chunks

\* Mutant: the loop cuts chunks one item longer than chunkSize.
chunkOversize(rs, k) ==
    LET r == chunkLoop(rs, k + 1, <<>>)
    IN  IF Len(r.rows) > 0 THEN Append(r.chunks, r.rows) ELSE r.chunks

\* Mutant: the remainder is put in front of the full chunks.
chunkRemainderFirst(rs, k) ==
    LET r == chunkLoop(rs, k, <<>>)
    IN  IF Len(r.rows) > 0 THEN <<r.rows>> \o r.chunks ELSE r.chunks

\* if len(rows) > 0 { chunks = append(chunks, rows[:]) }; return chunks
chunk(rs, k) ==
    LET r == chunkLoop(rs, k, <<>>)
    IN  IF Len(r.rows) > 0 THEN Append(r.chunks, r.rows) ELSE r.chunks

Range(s) == {s[i] : i \in 1..Len(s)}

Min(a, b) == IF a < b THEN a ELSE b

\* ------------------------------------------------------ the queue service
Visible == {m \in Msgs : queue[m] = "visible"}

RECURSIVE Ascending(_)
Ascending(V) ==
    IF V = {} THEN <<>>
    ELSE LET m == CHOOSE x \in V : \A y \in V : x <= y
         IN  <<m>> \o Ascending(V \ {m})

\* Any at most max members of V, in ascending id order.
AnyBatches(V, max) ==
    {Ascending(S) : S \in {T \in SUBSET V : Cardinality(T) <= max}}

\* The first n visible messages in ascending id order, n at most max.
OrderedBatches(V, max) ==
    {SubSeq(Ascending(V), 1, n) : n \in 0..Min(max, Cardinality(V))}

\* A successful DeleteMessageBatch removes its entries from the queue.
Removed(q, entries) ==
    [m \in DOMAIN q |-> IF m \in Range(entries) THEN "deleted" ELSE q[m]]

\* ReceiveMessage hides the returned messages for the visibility timeout.
Hidden(q, b) ==
    [m \in DOMAIN q |-> IF m \in Range(b) THEN "inflight" ELSE q[m]]

\* --------------------------------------------------------- NewSQSConsumer
\* Values the caller may put in conf.DeleteStrategy; "" is the unset field.
GivenStrategies ==
    {"", DeleteStrategyImmediate, DeleteStrategyOnSuccess, DeleteStrategyOther}

\* if len(conf.DeleteStrategy) == 0 { conf.DeleteStrategy = DeleteStrategyImmediate }
defaultStrategy(s) == IF s = "" THEN DeleteStrategyImmediate ELSE s

\* Mutant: the default replaces the given value whatever it is.
defaultAlways(v, d) == d

\* if conf.X == 0 { conf.X = DefaultX }
defaultInt(v, d) == IF v = 0 THEN d ELSE v

Failure(e) == [config |-> NilConf, err |-> e]

\* NewSQSConsumer(conf) in the AWS environment env: the pool's configuration
\* (NilConf with an error) and the error.
NewSQSConsumer(env, c) ==
    IF env # "ok" THEN Failure(SentinelErrorConfigAws)
    ELSE IF c = NilConf THEN Failure(SentinelErrorConfigIsNil)
    ELSE IF c.Queue = "" THEN Failure(SentinelErrorQueueNotSet)
    ELSE [config |->
            [c EXCEPT
               !.DeleteStrategy = defaultStrategy(@),
               !.Concurrency = defaultInt(@, DefaultConcurrency),
               !.WaitTimeSeconds = defaultInt(@, DefaultWaitTimeSeconds),
               !.MaxNumberOfMessages = defaultInt(@, DefaultMaxNumberOfMessages)],
          err |-> NoError]

\* --------------------------------------------------------------- errgroup
\* Mutant: the last error overwrites the recorded one.
errLast(cur, err) == err

\* g.Go: errOnce keeps the first non-nil error.
errOnce(cur, err) == IF cur = Nil THEN err ELSE cur

\* Mutant: a worker's error does not cancel the group context.
cancelNever(done, err) == done

\* g.Go: the first non-nil error cancels the context derived by WithContext.
cancelOnError(done, err) == done \/ err # Nil

\* Mutant: Wait returns as soon as one worker has exited.
SomeWorkerExited == \E w \in Workers : pc[w] = "done"

\* g.Wait: blocks until every goroutine started by g.Go has returned.
AllWorkersExited == \A w \in Workers : pc[w] = "done"

\* Mutant: a failed transport call sends the worker back to the top of its
\* loop instead of returning the error.
ReturnRetry(w, err) ==
    /\ pc' = [pc EXCEPT ![w] = IF err = Nil THEN "done" ELSE "top"]
    /\ UNCHANGED <<ret, gErr, ctxDone, firstErr>>

\* return err / return nil of handleMessages inside g.Go(func() error {...}).
Return(w, err) ==
    /\ pc' = [pc EXCEPT ![w] = "done"]
    /\ ret' = [ret EXCEPT ![w] = err]
    /\ gErr' = IF err # Nil THEN errOnce(gErr, err) ELSE gErr
    /\ ctxDone' = cancelOnError(ctxDone, err)
    /\ firstErr' = IF firstErr = Nil THEN err ELSE firstErr

\* ---------------------------------------------------------- handleMessages
\* Mutant: the cancellation checkpoint is skipped.
checkpointNever(done) == FALSE

\* Mutant: the checkpoint fires whether or not the context is done.
checkpointAlways(done) == TRUE

\* select { case <-ctx.Done(): ... default: ... }
checkpoint(done) == done

\* Top of the loop: return nil when the context is done, else issue the
\* long-poll receive.
Poll(w) ==
    /\ pc[w] = "top"
    /\ IF checkpoint(ctxDone)
       THEN /\ Return(w, Nil)
            /\ UNCHANGED failed
       ELSE /\ pc' = [pc EXCEPT ![w] = "recv"]
            /\ UNCHANGED failed
            /\ UNCHANGED <<ret, gErr, ctxDone, firstErr>>
    /\ UNCHANGED <<cfgVars, queue, startPc, startRet, observer, batch, idx,
                   toDelete, pend, handed, submitted, oks, chunkVars, confVars>>

\* Mutant: Immediate does not delete before dispatch.
preDeleteNever(st) == FALSE

\* if s.config.DeleteStrategy == DeleteStrategyImmediate { deleteSqsMessages(result.Messages) }
preDelete(st) == st = DeleteStrategyImmediate

\* ReceiveMessage returns the messages b (possibly none).
RecvMessages(w, B) ==
    /\ pc[w] = "recv"
    /\ \E b \in B :
        /\ queue' = Hidden(queue, b)
        /\ batch' = [batch EXCEPT ![w] = b]
        /\ UNCHANGED failed
        /\ IF Len(b) = 0
           THEN /\ pc' = [pc EXCEPT ![w] = "sleep"]
                /\ UNCHANGED <<pend, idx>>
           ELSE IF preDelete(strategy)
           THEN /\ pc' = [pc EXCEPT ![w] = "predel"]
                /\ pend' = [pend EXCEPT ![w] = chunk(b, DeleteBatchSize)]
                /\ UNCHANGED idx
           ELSE /\ pc' = [pc EXCEPT ![w] = "handle"]
                /\ idx' = [idx EXCEPT ![w] = 1]
                /\ UNCHANGED pend
    /\ UNCHANGED <<cfgVars, startVars, toDelete, ret, firstErr, handed,
                   submitted, oks, chunkVars, confVars>>

\* ReceiveMessage fails: return err.
RecvError(w) ==
    /\ pc[w] = "recv"
    /\ Return(w, Err("recv", "transport", w))
    /\ failed' = [failed EXCEPT ![w] = TRUE]
    /\ UNCHANGED <<cfgVars, queue, startPc, startRet, observer, batch, idx,
                   toDelete, pend, handed, submitted, oks, chunkVars, confVars>>

\* ReceiveMessage was given ctx: once ctx is cancelled the in-flight call may
\* return the context's error.
RecvCancelled(w) ==
    /\ pc[w] = "recv"
    /\ ctxDone
    /\ Return(w, Err("recv", "ctx", w))
    /\ failed' = [failed EXCEPT ![w] = TRUE]
    /\ UNCHANGED <<cfgVars, queue, startPc, startRet, observer, batch, idx,
                   toDelete, pend, handed, submitted, oks, chunkVars, confVars>>

\* Mutant: after the delay the worker issues its next receive without
\* passing the checkpoint.
SleepRepolls(w) ==
    /\ pc[w] = "sleep"
    /\ pc' = [pc EXCEPT ![w] = "recv"]
    /\ UNCHANGED <<cfgVars, queue, startVars, batch, idx, toDelete, pend, ret,
                   histVars, chunkVars, confVars>>

\* time.Sleep(1 * time.Second); continue
Sleep(w) ==
    /\ pc[w] = "sleep"
    /\ pc' = [pc EXCEPT ![w] = "top"]
    /\ UNCHANGED failed
    /\ UNCHANGED <<cfgVars, queue, startVars, batch, idx, toDelete, pend, ret,
                   firstErr, handed, submitted, oks, chunkVars, confVars>>

\* End of the loop body: result, toDelete and the cycle's history go out of
\* scope and the worker is back at the top of the loop.
Continue(w) ==
    /\ pc[w] = "loop"
    /\ pc' = [pc EXCEPT ![w] = "top"]
    /\ batch' = [batch EXCEPT ![w] = <<>>]
    /\ toDelete' = [toDelete EXCEPT ![w] = <<>>]
    /\ submitted' = [submitted EXCEPT ![w] = <<>>]
    /\ oks' = [oks EXCEPT ![w] = <<>>]
    /\ UNCHANGED failed
    /\ UNCHANGED <<cfgVars, queue, startVars, idx, pend, ret, firstErr, handed,
                   chunkVars, confVars>>

\* Mutant: handler successes are collected under every strategy.
collectAlways(st) == TRUE

\* if s.config.DeleteStrategy == DeleteStrategyOnSuccess { toDelete = append(toDelete, msg) }
collect(st) == st = DeleteStrategyOnSuccess

\* Mutant: a handler error is collected for deletion like a success.
keepAll(ok) == TRUE

\* if err := consumeFn(...); err != nil { ...; continue }
keep(ok) == ok

\* One iteration of the range loop: consumeFn on batch[idx] returns nil (ok)
\* or an error; after the last message deleteSqsMessages(toDelete) starts.
Handle(w, ok) ==
    /\ pc[w] = "handle"
    /\ LET m == batch[w][idx[w]]
           td == IF keep(ok) /\ collect(strategy)
                 THEN Append(toDelete[w], m) ELSE toDelete[w]
       IN  /\ UNCHANGED failed
           /\ handed' = [handed EXCEPT ![m] = TRUE]
           /\ oks' = [oks EXCEPT ![w] = Append(@, ok)]
           /\ toDelete' = [toDelete EXCEPT ![w] = td]
           /\ IF idx[w] < Len(batch[w])
              THEN /\ idx' = [idx EXCEPT ![w] = @ + 1]
                   /\ UNCHANGED <<pc, pend>>
              ELSE /\ idx' = [idx EXCEPT ![w] = 0]
                   /\ IF Len(td) = 0
                      THEN /\ pc' = [pc EXCEPT ![w] = "loop"]
                           /\ UNCHANGED pend
                      ELSE /\ pc' = [pc EXCEPT ![w] = "postdel"]
                           /\ pend' = [pend EXCEPT ![w] = chunk(td, DeleteBatchSize)]
    /\ UNCHANGED <<cfgVars, queue, startVars, batch, ret, firstErr, submitted,
                   chunkVars, confVars>>

\* Mutant: a handler error is returned by the worker like a transport error.
HandleErrAborts(w) ==
    /\ pc[w] = "handle"
    /\ Return(w, Err("handler", "handler", w))
    /\ handed' = [handed EXCEPT ![batch[w][idx[w]]] = TRUE]
    /\ oks' = [oks EXCEPT ![w] = Append(@, FALSE)]
    /\ UNCHANGED <<cfgVars, queue, startPc, startRet, observer, batch, idx,
                   toDelete, pend, failed, submitted, chunkVars, confVars>>

HandleOk(w) == Handle(w, TRUE)
HandleErr(w) == Handle(w, FALSE)

\* -------------------------------------------------------- deleteSqsMessages
InDelete(w) == pc[w] \in {"predel", "postdel"}

\* DeleteMessageBatch on the next chunk succeeds; after the last chunk
\* deleteSqsMessages returns nil.
DeleteOk(w) ==
    /\ InDelete(w)
    /\ LET c == Head(pend[w])
       IN  /\ UNCHANGED failed
           /\ submitted' = [submitted EXCEPT ![w] = @ \o c]
           /\ queue' = Removed(queue, c)
    /\ pend' = [pend EXCEPT ![w] = Tail(@)]
    /\ IF Len(pend[w]) > 1
       THEN UNCHANGED <<pc, idx>>
       ELSE IF pc[w] = "predel"
       THEN /\ pc' = [pc EXCEPT ![w] = "handle"]
            /\ idx' = [idx EXCEPT ![w] = 1]
       ELSE /\ pc' = [pc EXCEPT ![w] = "loop"]
            /\ UNCHANGED idx
    /\ UNCHANGED <<cfgVars, startVars, batch, toDelete, ret, firstErr, handed,
                   oks, chunkVars, confVars>>

\* DeleteMessageBatch fails with the error e: return err, the remaining
\* chunks are not submitted.
DeleteFails(w, e) ==
    /\ InDelete(w)
    /\ LET c == Head(pend[w])
       IN  /\ failed' = [failed EXCEPT ![w] = TRUE]
           /\ submitted' = [submitted EXCEPT ![w] = @ \o c]
    /\ Return(w, e)
    /\ UNCHANGED <<cfgVars, queue, startPc, startRet, observer, batch, idx,
                   toDelete, pend, handed, oks, chunkVars, confVars>>

\* Mutant: a failed DeleteMessageBatch is skipped and deleteSqsMessages goes
\* on with the next chunk.
DeleteErrorContinues(w) ==
    /\ InDelete(w)
    /\ failed' = [failed EXCEPT ![w] = TRUE]
    /\ submitted' = [submitted EXCEPT ![w] = @ \o Head(pend[w])]
    /\ pend' = [pend EXCEPT ![w] = Tail(@)]
    /\ IF Len(pend[w]) > 1
       THEN UNCHANGED <<pc, idx>>
       ELSE IF pc[w] = "predel"
       THEN /\ pc' = [pc EXCEPT ![w] = "handle"]
            /\ idx' = [idx EXCEPT ![w] = 1]
       ELSE /\ pc' = [pc EXCEPT ![w] = "loop"]
            /\ UNCHANGED idx
    /\ UNCHANGED <<cfgVars, queue, startVars, batch, toDelete, ret, firstErr,
                   handed, oks, chunkVars, confVars>>

DeleteError(w) == DeleteFails(w, Err("delete", "transport", w))

\* DeleteMessageBatch was given ctx: with ctx cancelled it may return the
\* context's error.
DeleteCancelled(w) == ctxDone /\ DeleteFails(w, Err("delete", "ctx", w))

\* -------------------------------------------------------------------- Start
\* os.Interrupt is delivered to the waiting goroutine: cancel().
Interrupt ==
    /\ observer = "waiting"
    /\ observer' = "exited"
    /\ ctxDone' = TRUE
    /\ UNCHANGED failed
    /\ UNCHANGED <<cfgVars, queue, gErr, startPc, startRet, workerVars,
                   firstErr, handed, submitted, oks, chunkVars, confVars>>

\* The caller's context (the parent of the derived one) is cancelled.
ParentCancel ==
    /\ ~ctxDone
    /\ ctxDone' = TRUE
    /\ UNCHANGED failed
    /\ UNCHANGED <<cfgVars, queue, gErr, startPc, startRet, observer, workerVars,
                   firstErr, handed, submitted, oks, chunkVars, confVars>>

\* return g.Wait()
StartReturn ==
    /\ startPc = "running"
    /\ AllWorkersExited
    /\ startPc' = "returned"
    /\ startRet' = gErr
    /\ ctxDone' = TRUE
    /\ UNCHANGED failed
    /\ UNCHANGED <<cfgVars, queue, gErr, observer, workerVars, firstErr,
                   handed, submitted, oks, chunkVars, confVars>>

\* A message received and not deleted becomes visible again.
VisibilityTimeout(m) ==
    /\ queue[m] = "inflight"
    /\ queue' = [queue EXCEPT ![m] = "visible"]
    /\ UNCHANGED failed
    /\ UNCHANGED <<cfgVars, startVars, workerVars, firstErr, handed,
                   submitted, oks, chunkVars, confVars>>

\* ----------------------------------------------------------- specifications
\* The DeleteStrategy values a pool can be constructed with.
Strategies == {defaultStrategy(s) : s \in GivenStrategies}

\* The construction variables outside the construction specification.
NoConstruction ==
    /\ awsEnv = "ok"
    /\ conf = NilConf
    /\ newRet = [config |-> NilConf, err |-> NoError]
    /\ newPc = "idle"

\* State right after Start has spawned the observer and the workers.
Started(n, nmsgs) ==
    /\ strategy \in Strategies
    /\ concurrency = n
    /\ maxMessages = nmsgs
    /\ queue = [m \in 1..nmsgs |-> "visible"]
    /\ ctxDone = FALSE
    /\ gErr = Nil
    /\ startPc = "running"
    /\ startRet = Nil
    /\ observer = "waiting"
    /\ pc = [w \in 1..n |-> "top"]
    /\ batch = [w \in 1..n |-> <<>>]
    /\ idx = [w \in 1..n |-> 0]
    /\ toDelete = [w \in 1..n |-> <<>>]
    /\ pend = [w \in 1..n |-> <<>>]
    /\ ret = [w \in 1..n |-> Nil]
    /\ failed = [w \in 1..n |-> FALSE]
    /\ firstErr = Nil
    /\ handed = [m \in 1..nmsgs |-> FALSE]
    /\ submitted = [w \in 1..n |-> <<>>]
    /\ oks = [w \in 1..n |-> <<>>]
    /\ rows = <<>>
    /\ chunkSize = 1
    /\ chunks = <<>>
    /\ chunkPc = "idle"
    /\ NoConstruction

\* The pool: several workers on a small queue, cancellation, redelivery.
Init == \E n \in 1..MaxConcurrency : Started(n, NumMsgs)

Next ==
    \/ \E w \in Workers : Poll(w)
    \/ \E w \in Workers : RecvMessages(w, AnyBatches(Visible, maxMessages))
    \/ \E w \in Workers : RecvError(w)
    \/ \E w \in Workers : RecvCancelled(w)
    \/ \E w \in Workers : Sleep(w)
    \/ \E w \in Workers : Continue(w)
    \/ \E w \in Workers : HandleOk(w)
    \/ \E w \in Workers : HandleErr(w)
    \/ \E w \in Workers : DeleteOk(w)
    \/ \E w \in Workers : DeleteError(w)
    \/ \E w \in Workers : DeleteCancelled(w)
    \/ \E m \in Msgs : VisibilityTimeout(m)
    \/ Interrupt
    \/ ParentCancel
    \/ StartReturn

Spec == Init /\ [][Next]_vars

\* One step of worker w: its pending receive, handler, delete-batch call or
\* idle delay returns, or it passes the top or the end of its loop.
WorkerStep(w) ==
    /\ w \in Workers
    /\ \/ Poll(w)
       \/ RecvMessages(w, AnyBatches(Visible, maxMessages))
       \/ RecvError(w)
       \/ RecvCancelled(w)
       \/ Sleep(w)
       \/ Continue(w)
       \/ HandleOk(w)
       \/ HandleErr(w)
       \/ DeleteOk(w)
       \/ DeleteError(w)
       \/ DeleteCancelled(w)

\* The pool with no visibility timeout expiring during the run.
NextLive ==
    \/ \E w \in Workers : WorkerStep(w)
    \/ Interrupt
    \/ ParentCancel
    \/ StartReturn

\* The pool under fair scheduling: the Go scheduler runs every runnable
\* goroutine, and every receive, handler and delete-batch call and the idle
\* delay return, so a worker that can take a step takes one, and g.Wait
\* returns once every worker has.
SpecLive ==
    /\ Init
    /\ [][NextLive]_vars
    /\ \A w \in 1..MaxConcurrency : WF_vars(WorkerStep(w))
    /\ WF_vars(StartReturn)

\* One worker, batches longer than one delete-batch call, no redelivery.
InitBatch == Started(1, MaxBatch)

NextBatch ==
    \/ \E w \in Workers : Poll(w)
    \/ \E w \in Workers : RecvMessages(w, OrderedBatches(Visible, maxMessages))
    \/ \E w \in Workers : RecvError(w)
    \/ \E w \in Workers : Sleep(w)
    \/ \E w \in Workers : Continue(w)
    \/ \E w \in Workers : HandleOk(w)
    \/ \E w \in Workers : HandleErr(w)
    \/ \E w \in Workers : DeleteOk(w)
    \/ \E w \in Workers : DeleteError(w)
    \/ StartReturn

SpecBatch == InitBatch /\ [][NextBatch]_vars

\* chunk as a pure function of its inputs.
Items == {1, 2}

InitChunk ==
    /\ strategy = DeleteStrategyImmediate
    /\ concurrency = 0
    /\ maxMessages = 0
    /\ queue = <<>>
    /\ ctxDone = FALSE
    /\ gErr = Nil
    /\ startPc = "running"
    /\ startRet = Nil
    /\ observer = "waiting"
    /\ pc = <<>>
    /\ batch = <<>>
    /\ idx = <<>>
    /\ toDelete = <<>>
    /\ pend = <<>>
    /\ ret = <<>>
    /\ failed = <<>>
    /\ firstErr = Nil
    /\ handed = <<>>
    /\ submitted = <<>>
    /\ oks = <<>>
    /\ rows \in UNION {[1..n -> Items] : n \in 0..MaxLen}
    /\ chunkSize \in 1..MaxK
    /\ chunks = <<>>
    /\ chunkPc = "idle"
    /\ NoConstruction

CallChunk ==
    /\ chunkPc = "idle"
    /\ chunks' = chunk(rows, chunkSize)
    /\ chunkPc' = "called"
    /\ UNCHANGED <<cfgVars, queue, startVars, workerVars, histVars, rows, chunkSize,
                   confVars>>

NextChunk == CallChunk

SpecChunk == InitChunk /\ [][NextChunk]_vars

\* NewSQSConsumer on every small configuration in every AWS environment.
Confs ==
    [Queue : {"", "queue-url"},
     Concurrency : 0..MaxField,
     WaitTimeSeconds : 0..MaxField,
     MaxNumberOfMessages : 0..MaxField,
     VisibilityTimeout : 0..MaxField,
     DeleteStrategy : GivenStrategies]

InitConf ==
    /\ strategy = DeleteStrategyImmediate
    /\ concurrency = 0
    /\ maxMessages = 0
    /\ queue = <<>>
    /\ ctxDone = FALSE
    /\ gErr = Nil
    /\ startPc = "running"
    /\ startRet = Nil
    /\ observer = "waiting"
    /\ pc = <<>>
    /\ batch = <<>>
    /\ idx = <<>>
    /\ toDelete = <<>>
    /\ pend = <<>>
    /\ ret = <<>>
    /\ failed = <<>>
    /\ firstErr = Nil
    /\ handed = <<>>
    /\ submitted = <<>>
    /\ oks = <<>>
    /\ rows = <<>>
    /\ chunkSize = 1
    /\ chunks = <<>>
    /\ chunkPc = "idle"
    /\ awsEnv \in {"unset", "invalid", "ok"}
    /\ conf \in Confs \cup {NilConf}
    /\ newRet = [config |-> NilConf, err |-> NoError]
    /\ newPc = "idle"

CallNew ==
    /\ newPc = "idle"
    /\ newRet' = NewSQSConsumer(awsEnv, conf)
    /\ newPc' = "called"
    /\ UNCHANGED <<cfgVars, queue, startVars, workerVars, histVars, chunkVars,
                   awsEnv, conf>>

NextConf == CallNew

SpecConf == InitConf /\ [][NextConf]_vars

\* ------------------------------------------------------------------ claims
\* Calls as steps.  oks[w] grows by one result at every handler invocation of
\* w and submitted[w] by the entries of every delete-batch call of w.

\* This step is worker w issuing ReceiveMessage.
IssuesReceive(w) == pc[w] = "top" /\ pc'[w] = "recv"

\* This step is worker w invoking the handler (on batch[w][idx[w]]).
CallsHandler(w) == pc[w] = "handle" /\ Len(oks'[w]) = Len(oks[w]) + 1

\* This step is worker w calling DeleteMessageBatch with Entries(w).
CallsDelete(w) == InDelete(w) /\ Len(submitted'[w]) > Len(submitted[w])
Entries(w) == SubSeq(submitted'[w], Len(submitted[w]) + 1, Len(submitted'[w]))

\* This step is worker w issuing a receive, a handler invocation or a
\* delete-batch call.
Issues(w) == IssuesReceive(w) \/ CallsHandler(w) \/ CallsDelete(w)

RECURSIVE Successes(_, _)
\* The messages of b whose handler result in r is nil, in the order of b.
Successes(b, r) ==
    IF r = <<>> THEN <<>>
    ELSE (IF Head(r) THEN <<Head(b)>> ELSE <<>>) \o Successes(Tail(b), Tail(r))

RECURSIVE Concat(_)
Concat(ss) == IF ss = <<>> THEN <<>> ELSE Head(ss) \o Concat(Tail(ss))

IsPrefix(s, t) == Len(s) <= Len(t) /\ SubSeq(t, 1, Len(s)) = s

\* C1: when Start returns every worker has exited, no worker issues a
\* receive, handler or delete-batch call afterwards, and if some worker
\* returned an error Start returns the error of the first worker that did.
C1_StartWaitsAndReturnsFirstError ==
    [][/\ startPc' = "returned" =>
            /\ \A w \in Workers : pc'[w] = "done"
            /\ firstErr' # Nil => startRet' = firstErr'
       /\ startPc = "returned" => \A w \in Workers : ~Issues(w)
      ]_vars

\* Start has returned the first of two different worker errors.
C1_Witness ==
    /\ startPc = "returned"
    /\ startRet # Nil
    /\ \E v, w \in Workers :
        /\ ret[v] = startRet
        /\ ret[w] # Nil
        /\ ret[w] # startRet

\* C2: when the first error in the pool is a failed receive, the shared
\* context is cancelled and Start returns exactly that error; and once the
\* context is cancelled no worker starts another receive.
C2_ReceiveErrorCancelsPool ==
    [][/\ firstErr'.call = "recv" =>
            /\ ctxDone'
            /\ startPc' = "returned" => startRet' = firstErr'
       /\ ctxDone => \A w \in Workers : ~IssuesReceive(w)
      ]_vars

\* A transport failure of one worker's receive stopped a sibling at its
\* checkpoint and Start returned that failure.
C2_Witness ==
    /\ startPc = "returned"
    /\ startRet.call = "recv"
    /\ startRet.cause = "transport"
    /\ \E w \in Workers : ret[w] = Nil

\* C3 (as claimed): if no transport call failed by the queue service's
\* doing, every worker returns nil and Start returns nil.
C3_CancelReturnsNil ==
    (startPc = "returned" /\ \A w \in Workers : ret[w].cause # "transport")
        => (startRet = Nil /\ \A w \in Workers : ret[w] = Nil)

\* The poll cycle of w is over: every message has been handed to the handler
\* and the worker is at the end of the loop body or has returned.
CycleOver(w) ==
    /\ pc[w] \in {"loop", "done"}
    /\ batch[w] # <<>>
    /\ Len(oks[w]) = Len(batch[w])

\* C4 (as claimed): under OnSuccess the entries submitted for deletion in a
\* poll cycle are exactly the handler successes, in receipt order.
C4_SubmittedEqualsSuccesses ==
    \A w \in Workers :
        (strategy = DeleteStrategyOnSuccess /\ CycleOver(w))
            => submitted[w] = Successes(batch[w], oks[w])

\* C4 (amended): under OnSuccess the entries submitted for deletion in a
\* poll cycle are always a prefix of the handler successes in receipt order,
\* and they are all of them when no delete-batch call of the cycle failed.
C4_SubmittedPrefixOfSuccesses ==
    \A w \in Workers :
        strategy = DeleteStrategyOnSuccess =>
            /\ IsPrefix(submitted[w], Successes(batch[w], oks[w]))
            /\ (pc[w] = "loop" /\ batch[w] # <<>>)
                   => submitted[w] = Successes(batch[w], oks[w])

\* A completed cycle with handler failures and successes whose successes
\* needed more than one delete-batch call.
C4_Witness ==
    /\ strategy = DeleteStrategyOnSuccess
    /\ \E w \in Workers :
        /\ pc[w] = "loop"
        /\ Len(submitted[w]) > DeleteBatchSize
        /\ \E i \in DOMAIN oks[w] : ~oks[w][i]

\* C5: under Immediate, whenever the handler is or has been invoked in a poll
\* cycle, every received message of the cycle has been submitted for deletion.
C5_ImmediateDeletesBeforeHandler ==
    \A w \in Workers :
        (strategy = DeleteStrategyImmediate /\ (pc[w] = "handle" \/ oks[w] # <<>>))
            => submitted[w] = batch[w]

\* The handler runs (and has failed) on a batch that took two delete calls.
C5_Witness ==
    /\ strategy = DeleteStrategyImmediate
    /\ \E w \in Workers :
        /\ pc[w] = "handle"
        /\ Len(batch[w]) > DeleteBatchSize
        /\ \E i \in DOMAIN oks[w] : ~oks[w][i]

\* C6 (as claimed): under Immediate no message is handed to the handler more
\* than once.
C6_AtMostOnce ==
    [][strategy = DeleteStrategyImmediate =>
         \A w \in Workers : CallsHandler(w) => ~handed[batch[w][idx[w]]]
      ]_vars

\* C6 (amended): under Immediate a message that has been handed to the
\* handler has already been removed from the queue.
C6_HandedIsDeleted ==
    strategy = DeleteStrategyImmediate =>
        \A m \in Msgs : handed[m] => queue[m] = "deleted"

\* A message already handed to the handler is about to be handed to it again
\* by a worker that received it before it was deleted.
C6_Witness ==
    /\ strategy = DeleteStrategyImmediate
    /\ \E w \in Workers :
        /\ pc[w] = "handle"
        /\ handed[batch[w][idx[w]]]
        /\ queue[batch[w][idx[w]]] = "deleted"

\* C7: under OnSuccess a delete-batch call of a worker carries only messages
\* on which that worker's handler returned nil in the same cycle, and a
\* message leaves the queue only through such a call.
C7_DeletedOnlyAfterSuccess ==
    [][strategy = DeleteStrategyOnSuccess =>
         /\ \A w \in Workers :
              CallsDelete(w) =>
                  \A m \in Range(Entries(w)) :
                      \E i \in DOMAIN oks[w] : batch[w][i] = m /\ oks[w][i]
         /\ \A m \in Msgs :
              (queue[m] # "deleted" /\ queue'[m] = "deleted") =>
                  \E w \in Workers : CallsDelete(w) /\ m \in Range(Entries(w))
      ]_vars

\* A message whose handler returned an error was not deleted and is visible
\* again after its visibility timeout.
C7_Witness ==
    /\ strategy = DeleteStrategyOnSuccess
    /\ \E w \in Workers :
        /\ pc[w] = "loop"
        /\ \E i \in DOMAIN oks[w] : ~oks[w][i] /\ queue[batch[w][i]] = "visible"

\* C8: chunk(rows, k) with k >= 1 returns ceil(n/k) chunks, all of k items
\* except the last of 1..k items, whose concatenation is rows; no chunk for
\* empty rows.
C8_ChunkCorrect ==
    chunkPc = "called" =>
        LET n == Len(rows)
            k == chunkSize
            c == Len(chunks)
        IN  /\ c = (n + k - 1) \div k
            /\ \A i \in 1..c : Len(chunks[i]) \in 1..k
            /\ \A i \in 1..(c - 1) : Len(chunks[i]) = k
            /\ Concat(chunks) = rows
            /\ n = 0 => chunks = <<>>

\* chunk returned several chunks, the last one shorter than the chunk size.
C8_Witness ==
    /\ chunkPc = "called"
    /\ Len(chunks) >= 2
    /\ Len(chunks[Len(chunks)]) < chunkSize

\* C9: every delete-batch call carries 1 to 10 entries, and a poll cycle with
\* nothing to acknowledge (an empty receive, or no message collected for
\* deletion) ends without a delete-batch call.
C9_DeleteBatchSize ==
    [][\A w \in Workers :
         /\ CallsDelete(w) => Len(Entries(w)) \in 1..10
         /\ InDelete(w)' => pend'[w] # <<>>
         /\ (pc'[w] = "loop" /\ toDelete'[w] = <<>>
                /\ strategy # DeleteStrategyImmediate) => submitted'[w] = <<>>
         /\ (pc'[w] = "loop" /\ strategy = DeleteStrategyImmediate)
               => submitted'[w] = batch'[w]
         /\ pc'[w] = "sleep" => submitted'[w] = <<>>
      ]_vars

\* A delete-batch call of 10 entries has been made and a further chunk is
\* still to be submitted.
C9_Witness ==
    \E w \in Workers :
        /\ InDelete(w)
        /\ Len(submitted[w]) = 10
        /\ pend[w] # <<>>

\* C10: a worker whose receive or delete-batch call failed has returned that
\* error, and a worker that has returned stays returned and issues no
\* further receive, handler or delete-batch call.
C10_TransportErrorIsFatal ==
    [][\A w \in Workers :
         /\ failed'[w] => (pc'[w] = "done" /\ ret'[w] # Nil /\ ret'[w].w = w)
         /\ pc[w] = "done" => (pc'[w] = "done" /\ ret'[w] = ret[w] /\ ~Issues(w))
      ]_vars

\* A worker has returned a transport failure while a sibling goes on handing
\* messages to the handler.
C10_Witness ==
    \E v, w \in Workers :
        /\ pc[v] = "done"
        /\ failed[v]
        /\ ret[v].cause = "transport"
        /\ pc[w] = "handle"

\* The handler invocation of this step returned an error.
HandlerFails(w) == CallsHandler(w) /\ ~oks'[w][Len(oks'[w])]

\* C11: a handler error never aborts the worker.  The step in which the
\* handler returns an error leaves the worker's return value, the group's
\* error, the context and Start's result as they were; the worker goes on to
\* the next message of the batch, after the last message every message of
\* the batch has been given to the handler and the acknowledgment step runs
\* on the collected messages, and from the end of the cycle the worker is
\* back at the top of its loop.  A worker returns a non-nil error only after
\* one of its transport calls failed.
C11_HandlerErrorNeverAborts ==
    [][\A w \in Workers :
         /\ HandlerFails(w) =>
              /\ pc'[w] # "done"
              /\ ret'[w] = ret[w]
              /\ gErr' = gErr
              /\ ctxDone' = ctxDone
              /\ startPc' = startPc /\ startRet' = startRet
              /\ idx[w] < Len(batch[w]) =>
                     (pc'[w] = "handle" /\ idx'[w] = idx[w] + 1)
              /\ idx[w] = Len(batch[w]) => pc'[w] \in {"postdel", "loop"}
         /\ (pc[w] = "handle" /\ pc'[w] \in {"postdel", "loop"}) =>
              /\ Len(oks'[w]) = Len(batch[w])
              /\ pc'[w] = "postdel" <=> toDelete'[w] # <<>>
              /\ pc'[w] = "postdel" => Concat(pend'[w]) = toDelete'[w]
         /\ pc[w] = "loop" => pc'[w] \in {"loop", "top"}
         /\ ret'[w] # Nil => failed'[w]
      ]_vars

\* A cycle is over in which the handler failed on the first message, was
\* still invoked on the second, whose success was acknowledged, with the
\* context live and no worker returned.
C11_Witness ==
    \E w \in Workers :
        /\ pc[w] = "loop"
        /\ strategy = DeleteStrategyOnSuccess
        /\ Len(oks[w]) >= 2
        /\ ~oks[w][1]
        /\ oks[w][2]
        /\ submitted[w] # <<>>
        /\ ret[w] = Nil
        /\ ~ctxDone

\* C12: a pool constructed with a delete strategy that is neither Immediate
\* nor OnSuccess behaves as an Immediate pool: whenever one of its workers
\* is handing a batch to the handler, every message of the batch has been
\* submitted for deletion.
C12_UnrecognizedActsAsImmediate ==
    \A w \in Workers :
        (/\ strategy \notin {DeleteStrategyImmediate, DeleteStrategyOnSuccess}
         /\ pc[w] = "handle")
        => submitted[w] = batch[w]

\* C13: NewSQSConsumer called, in a usable AWS environment, with a
\* configuration whose queue is set succeeds, and the configuration of the
\* pool holds the default for every one of Concurrency, WaitTimeSeconds,
\* MaxNumberOfMessages that was given as 0 and Immediate for an unset
\* DeleteStrategy, while Queue, VisibilityTimeout and every field given
\* non-zero hold the value given.
C13_DefaultsApplied ==
    (newPc = "called" /\ awsEnv = "ok" /\ conf # NilConf /\ conf.Queue # "") =>
        /\ newRet.err = NoError
        /\ LET r == newRet.config
           IN  /\ r.Queue = conf.Queue
               /\ r.VisibilityTimeout = conf.VisibilityTimeout
               /\ r.Concurrency =
                      IF conf.Concurrency = 0 THEN DefaultConcurrency
                      ELSE conf.Concurrency
               /\ r.WaitTimeSeconds =
                      IF conf.WaitTimeSeconds = 0 THEN DefaultWaitTimeSeconds
                      ELSE conf.WaitTimeSeconds
               /\ r.MaxNumberOfMessages =
                      IF conf.MaxNumberOfMessages = 0
                      THEN DefaultMaxNumberOfMessages
                      ELSE conf.MaxNumberOfMessages
               /\ r.DeleteStrategy =
                      IF conf.DeleteStrategy = "" THEN DeleteStrategyImmediate
                      ELSE conf.DeleteStrategy

\* A pool was constructed from a configuration with only the queue and the
\* visibility timeout set, and holds the four defaults.
C13_Witness ==
    /\ newPc = "called"
    /\ conf # NilConf
    /\ conf.Queue # ""
    /\ conf.Concurrency = 0
    /\ conf.WaitTimeSeconds = 0
    /\ conf.MaxNumberOfMessages = 0
    /\ conf.DeleteStrategy = ""
    /\ conf.VisibilityTimeout = MaxField
    /\ newRet.err = NoError
    /\ newRet.config.Concurrency = DefaultConcurrency
    /\ newRet.config.WaitTimeSeconds = DefaultWaitTimeSeconds
    /\ newRet.config.MaxNumberOfMessages = DefaultMaxNumberOfMessages
    /\ newRet.config.DeleteStrategy = DeleteStrategyImmediate
    /\ newRet.config.VisibilityTimeout = MaxField

\* C14: once Start has returned, the interrupt observer it installed is no
\* longer waiting for a signal.
C14_ObserverEndsWithStart == startPc = "returned" => observer # "waiting"

\* C15: cancellation is observed only at the checkpoint at the top of the
\* loop and is not injected into a call in flight: no receive or
\* delete-batch call of a worker ends with the cancelled context's error.
C15_CancellationNotInjected == \A w \in Workers : ret[w].cause # "ctx"

\* The worker returns from handleMessages in this step.
Exits(w) == pc[w] # "done" /\ pc'[w] = "done"

\* C16: a worker returns nil only from the checkpoint at the top of its
\* loop with the context already cancelled; every other return carries the
\* non-nil error of the receive or delete-batch call that failed in that
\* step; so a worker never returns while the context is live and its
\* transport calls succeed.
C16_NilOnlyFromCheckpoint ==
    [][\A w \in Workers :
         Exits(w) =>
           /\ ret'[w] = Nil => (pc[w] = "top" /\ ctxDone)
           /\ ret'[w] # Nil =>
                /\ ~failed[w] /\ failed'[w]
                /\ ret'[w].call = "recv" => pc[w] = "recv"
                /\ ret'[w].call = "delete" => InDelete(w)
                /\ ret'[w].call \in {"recv", "delete"}
           /\ ctxDone \/ (~failed[w] /\ failed'[w])
      ]_vars

\* One worker has returned the error of a failed call and a sibling has
\* returned nil from the checkpoint.
C16_Witness ==
    \E v, w \in Workers :
        /\ pc[v] = "done" /\ ret[v] = Nil
        /\ pc[w] = "done" /\ ret[w] # Nil

RECURSIVE IsSubsequence(_, _)
\* s is t with some elements left out, the others in t's order.
IsSubsequence(s, t) ==
    IF s = <<>> THEN TRUE
    ELSE IF t = <<>> THEN FALSE
    ELSE IF Head(s) = Head(t) THEN IsSubsequence(Tail(s), Tail(t))
    ELSE IsSubsequence(s, Tail(t))

\* C17: in a poll cycle that reaches dispatch the handler is invoked exactly
\* once on every received message, in receipt order, whatever the earlier
\* invocations returned: the k-th invocation of the cycle is on the k-th
\* message of the batch, and dispatch ends right after the invocation on the
\* last one.  The entries of the cycle's delete-batch calls, read call
\* after call, are messages of the batch in receipt order.
C17_ReceiptOrder ==
    [][\A w \in Workers :
         /\ CallsHandler(w) =>
              /\ idx[w] = Len(oks[w]) + 1
              /\ idx[w] \in 1..Len(batch[w])
              /\ handed'[batch[w][idx[w]]]
              /\ batch'[w] = batch[w]
              /\ pc'[w] = "handle" <=> idx[w] < Len(batch[w])
         /\ (pc[w] = "handle" /\ pc'[w] # "handle") =>
              Len(oks'[w]) = Len(batch[w])
         /\ IsSubsequence(submitted'[w], batch'[w])
         /\ IsSubsequence(toDelete'[w], batch'[w])
      ]_vars

\* Under OnSuccess a cycle on the whole queue is over in which the handler
\* failed on the first message only, and the delete-batch calls have
\* carried the others in receipt order.
C17_Witness ==
    \E w \in Workers :
        /\ strategy = DeleteStrategyOnSuccess
        /\ pc[w] = "loop"
        /\ Len(batch[w]) = MaxBatch
        /\ Len(oks[w]) = MaxBatch
        /\ ~oks[w][1]
        /\ \A i \in 2..MaxBatch : oks[w][i]
        /\ submitted[w] = Tail(batch[w])

\* C18: a worker whose receive returned no message goes into the idle
\* delay with nothing handled and nothing submitted for deletion; from the
\* delay its only step is to the top of the loop, so its next receive is
\* issued by the checkpoint with the context live; and while it is in the
\* delay its siblings can take their own next step.
C18_EmptyReceiveIdles ==
    [][\A w \in Workers :
         /\ (pc[w] = "recv" /\ pc'[w] \notin {"recv", "done"} /\ batch'[w] = <<>>) =>
              pc'[w] = "sleep"
         /\ pc'[w] = "sleep" =>
              (batch'[w] = <<>> /\ oks'[w] = <<>> /\ submitted'[w] = <<>>)
         /\ pc[w] = "sleep" =>
              /\ ~Issues(w)
              /\ pc'[w] \in {"sleep", "top"}
              /\ \A v \in Workers \ {w} :
                   /\ pc[v] = "top" => ENABLED Poll(v)
                   /\ pc[v] = "recv" =>
                        ENABLED RecvMessages(v, AnyBatches(Visible, maxMessages))
                   /\ pc[v] = "handle" => ENABLED HandleOk(v)
                   /\ InDelete(v) => ENABLED DeleteOk(v)
         /\ (pc'[w] = "recv" /\ pc[w] # "recv") => (pc[w] = "top" /\ ~ctxDone)
      ]_vars

\* One worker is in the idle delay after an empty receive while a sibling
\* is handing the message it received to the handler.
C18_Witness ==
    \E v, w \in Workers :
        /\ pc[v] = "sleep"
        /\ batch[v] = <<>>
        /\ pc[w] = "handle"

\* C19: under Immediate a worker one of whose pre-dispatch delete-batch
\* calls failed has returned that call's error with the handler invoked on
\* no message of the batch; the failed chunk is the last one submitted and
\* the chunks after it were never submitted; the messages of the chunks
\* submitted before it are deleted without having been given to the
\* handler, and the messages of the failed and of the remaining chunks are
\* not deleted.
C19_ImmediateDeleteFailure ==
    \A w \in Workers :
        (strategy = DeleteStrategyImmediate /\ failed[w] /\ submitted[w] # <<>>) =>
            /\ pc[w] = "done"
            /\ ret[w] = Err("delete", "transport", w)
            /\ oks[w] = <<>>
            /\ pend[w] # <<>>
            /\ submitted[w] \o Concat(Tail(pend[w])) = batch[w]
            /\ LET del == Len(submitted[w]) - Len(Head(pend[w]))
               IN  /\ del >= 0
                   /\ SubSeq(batch[w], del + 1, Len(submitted[w])) = Head(pend[w])
                   /\ \A i \in 1..Len(batch[w]) :
                        /\ ~handed[batch[w][i]]
                        /\ i <= del <=> queue[batch[w][i]] = "deleted"

\* The first chunk of a batch was deleted, the call on the second chunk
\* failed and the worker has returned its error.
C19_Witness ==
    \E w \in Workers :
        /\ strategy = DeleteStrategyImmediate
        /\ pc[w] = "done"
        /\ ret[w].call = "delete"
        /\ Len(batch[w]) > DeleteBatchSize
        /\ Len(submitted[w]) = Len(batch[w])
        /\ queue[batch[w][1]] = "deleted"
        /\ ~handed[batch[w][1]]
        /\ queue[batch[w][Len(batch[w])]] = "inflight"

\* C20: under fair scheduling, with every call returning, once the context
\* is cancelled every worker eventually has returned and Start eventually
\* returns.
C20_CancelledPoolTerminates ==
    ctxDone ~> (startPc = "returned" /\ \A w \in Workers : pc[w] = "done")

\* The context was cancelled by the interrupt with no call failed, every
\* worker has returned nil from the checkpoint and Start has returned.
C20_Witness ==
    /\ observer = "exited"
    /\ startPc = "returned"
    /\ concurrency = MaxConcurrency
    /\ \A w \in Workers : pc[w] = "done" /\ ret[w] = Nil /\ ~failed[w]

====
